---- MODULE Spec2Model ----
(***************************************************************************)
(* A model of the WhisperKit C binding (src/WhisperKit/WhisperKit.c): the  *)
(* six exported functions, the engine contexts they create and destroy,    *)
(* and the heap buffers whisper_kit_transcribe hands to its caller.        *)
(*                                                                         *)
(* The inference engine (whisper.h) and the C allocator are collaborators  *)
(* outside the repository.  They are modelled by what the binding can      *)
(* observe of them: every return value the binding branches on is chosen   *)
(* nondeterministically, and a call that is undefined behaviour (a freed   *)
(* context, a freed buffer, a write past a buffer) either crashes the      *)
(* process or carries on with arbitrary data.                              *)
(*                                                                         *)
(* Spec   : one caller; every exported function is one atomic action.      *)
(* SpecMT : two caller threads; whisper_kit_transcribe is split at each    *)
(*          engine or allocator call, so calls on one handle interleave.   *)
(***************************************************************************)
EXTENDS Integers, Sequences, FiniteSets, TLC

\* ------------------------------------------------------------------ bounds
MaxHandles == 2
MaxBufs == 2
MaxSegs == 2
MaxSegsMT == 1
MaxCalls == 3

\* --------------------------------------------------------------- constants
NULL == 0

Handles == 1..MaxHandles
Bufs == 1..MaxBufs
Threads == {1, 2}

\* The caller's inputs.
Paths == {"model.bin", "missing.bin"}
ReadableModels == {"model.bin"}
SamplePtrs == {NULL, NULL + 1}
SampleCounts == {-1, 0, 1}

\* A segment text as whisper_full_get_segment_text returns it: a null
\* pointer, or a null-terminated byte string (bytes holds what precedes
\* the terminator).
NullText == [isNull |-> TRUE, bytes |-> <<>>]
Text(b) == [isNull |-> FALSE, bytes |-> b]
SegTexts == {NullText, Text(<<1>>), Text(<<2, 3>>)}

RECURSIVE SeqsUpTo(_, _)
SeqsUpTo(S, n) ==
    IF n = 0 THEN {<<>>}
    ELSE LET shorter == SeqsUpTo(S, n - 1)
         IN  shorter \cup {Append(s, x) : s \in {q \in shorter : Len(q) = n - 1}, x \in S}
SegLists == SeqsUpTo(SegTexts, MaxSegs)

VARIABLES
    ctx,            \* engine contexts by address: status and segment list
    heap,           \* malloc'd buffers by address: status, size, bytes written
    crashed,        \* the process has faulted
    GGML_USE_METAL, \* the build's preprocessor flag
    last,           \* the last exported call: op, arguments, the pointer (ret),
                    \* string (str) or boolean (flag) returned, the calls it made
    ncalls,         \* number of exported calls so far
    pc,             \* SpecMT: each thread's position inside whisper_kit_transcribe
    loc             \* SpecMT: each thread's locals inside whisper_kit_transcribe

vars == <<ctx, heap, crashed, GGML_USE_METAL, last, ncalls, pc, loc>>

NoCtx == [status |-> "unalloc", segs |-> <<>>]
NoBuf == [status |-> "unalloc", size |-> 0, data |-> <<>>]
NoLoc == [ctx |-> NULL, samples |-> NULL, n_samples |-> 0, n_segments |-> 0,
          i |-> 0, total_len |-> 0, result_text |-> NULL,
          returned |-> FALSE, ret |-> NULL,
          \* history: whether the context was live at this call's decode, and
          \* what other threads did to it between the decode and the last read
          liveAtDecode |-> FALSE, replaced |-> FALSE, freedUnder |-> FALSE]
NoCall == [op |-> "none", arg |-> <<>>, ret |-> 0, str |-> "", flag |-> FALSE, calls |-> <<>>]

Init ==
    /\ ctx = [h \in Handles |-> NoCtx]
    /\ heap = [b \in Bufs |-> NoBuf]
    /\ crashed = FALSE
    /\ GGML_USE_METAL \in BOOLEAN
    /\ last = NoCall
    /\ ncalls = 0
    /\ pc = [t \in Threads |-> "idle"]
    /\ loc = [t \in Threads |-> NoLoc]

\* One entry of a call's trace of engine, allocator and stderr calls.
\* st is the status of the object the call was handed, as the call began.
Call(fn, arg, st, ret) == [fn |-> fn, arg |-> arg, st |-> st, ret |-> ret]

\* The caller may pass any context pointer it has ever been given, or NULL.
IssuedHandles == {h \in Handles : ctx[h].status # "unalloc"}
IssuedBufs == {b \in Bufs : heap[b].status # "unalloc"}

\* An exported function can be entered while the process is alive.
Running == ~crashed /\ ncalls < MaxCalls

Return(op, arg, ret, calls) ==
    /\ last' = [NoCall EXCEPT !.op = op, !.arg = arg, !.ret = ret, !.calls = calls]
    /\ ncalls' = ncalls + 1

\* ------------------------------------------------------------------ engine
\* The addresses an allocation can return: any freed block (reuse), or a
\* block never handed out.  Blocks never handed out are referenced nowhere
\* and so are interchangeable: the lowest stands for all of them.
Reusable(status) ==
    LET fresh == {a \in DOMAIN status : status[a] = "unalloc"}
    IN  {a \in DOMAIN status : status[a] = "freed"}
        \cup {a \in fresh : \A b \in fresh : a <= b}

\* whisper_init_from_file_with_params: NULL, or a new context (only a
\* readable model file loads).
whisper_init_from_file_with_params(model_path) ==
    {NULL} \cup (IF model_path \in ReadableModels
                 THEN Reusable([h \in Handles |-> ctx[h].status])
                 ELSE {})

\* whisper_context_default_params, then cparams.use_gpu = true.
cparams == [use_gpu |-> TRUE]

\* ---------------------------------------------------------- whisper_kit_init
\* Mutant: the binding keeps one handle: a successful load frees the others.
whisper_kit_init_Singleton(model_path) ==
    /\ Running
    /\ \E c \in whisper_init_from_file_with_params(model_path) :
         LET load == Call("whisper_init_from_file_with_params",
                          <<model_path, cparams>>, "none", c)
         IN  IF c = NULL
             THEN /\ Return("init", <<model_path>>, NULL,
                            <<load, Call("fprintf", <<model_path>>, "none", 0)>>)
                  /\ UNCHANGED ctx
             ELSE /\ ctx' = [h \in Handles |->
                               IF h = c THEN [status |-> "live", segs |-> <<>>]
                               ELSE IF ctx[h].status = "live"
                                    THEN [status |-> "freed", segs |-> <<>>]
                                    ELSE ctx[h]]
                  /\ Return("init", <<model_path>>, c, <<load>>)
    /\ UNCHANGED <<heap, crashed, GGML_USE_METAL>>

\* Mutant: a failed load is tried once more before giving up.
whisper_kit_init_Retry(model_path) ==
    /\ Running
    /\ \E c1 \in whisper_init_from_file_with_params(model_path),
          c2 \in whisper_init_from_file_with_params(model_path) :
         LET load(c) == Call("whisper_init_from_file_with_params",
                             <<model_path, cparams>>, "none", c)
         IN  IF c1 # NULL
             THEN /\ ctx' = [ctx EXCEPT ![c1] = [status |-> "live", segs |-> <<>>]]
                  /\ Return("init", <<model_path>>, c1, <<load(c1)>>)
             ELSE IF c2 # NULL
             THEN /\ ctx' = [ctx EXCEPT ![c2] = [status |-> "live", segs |-> <<>>]]
                  /\ Return("init", <<model_path>>, c2, <<load(c1), load(c2)>>)
             ELSE /\ Return("init", <<model_path>>, NULL,
                            <<load(c1), load(c2), Call("fprintf", <<model_path>>, "none", 0)>>)
                  /\ UNCHANGED ctx
    /\ UNCHANGED <<heap, crashed, GGML_USE_METAL>>

whisper_kit_init(model_path) ==
    /\ Running
    /\ \E c \in whisper_init_from_file_with_params(model_path) :
         LET load == Call("whisper_init_from_file_with_params",
                          <<model_path, cparams>>, "none", c)
         IN  IF c = NULL
             THEN /\ Return("init", <<model_path>>, NULL,
                            <<load, Call("fprintf", <<model_path>>, "none", 0)>>)
                  /\ UNCHANGED ctx
             ELSE /\ ctx' = [ctx EXCEPT ![c] = [status |-> "live", segs |-> <<>>]]
                  /\ Return("init", <<model_path>>, c, <<load>>)
    /\ UNCHANGED <<heap, crashed, GGML_USE_METAL>>

\* ------------------------------------------------- engine decode, allocator
\* The whisper_full_params the binding builds for every call.
params ==
    [strategy |-> "WHISPER_SAMPLING_GREEDY", print_progress |-> FALSE,
     print_special |-> FALSE, print_realtime |-> FALSE,
     print_timestamps |-> FALSE, single_segment |-> TRUE, max_tokens |-> 0,
     language |-> "en", n_threads |-> 4, speed_up |-> FALSE,
     suppress_blank |-> TRUE, suppress_nst |-> TRUE]

\* whisper_full returns 0 on success and a non-zero code otherwise.
EngineStatus == {0, -1, 1}

\* whisper_full on context c: what it can return and the segment list it
\* leaves in the context.  On a freed context the call is undefined: it
\* faults, or returns either status having read and written freed memory.
whisper_full(c) ==
    IF ctx[c].status = "live"
    THEN {[crash |-> FALSE, result |-> r, segs |-> s] : r \in EngineStatus, s \in SegLists}
    ELSE {[crash |-> k, result |-> r, segs |-> <<>>] : k \in BOOLEAN, r \in EngineStatus}

\* What the two loops over the segments read, as <<first pass, second pass>>.
\* A live context gives both passes the list the decode left; a freed one
\* gives each read whatever the freed memory holds.
SegmentReads(c, segs) ==
    IF ctx[c].status = "live"
    THEN {<<segs, segs>>}
    ELSE {<<a, b>> \in SegLists \X SegLists : Len(a) = Len(b)}

\* malloc: NULL, or the address of a block that is not in use.
malloc == {NULL} \cup Reusable([b \in Bufs |-> heap[b].status])

strlen(text) == Len(text.bytes)

\* Mutant: the first loop stops one segment short (i < n_segments - 1).
RECURSIVE TotalLen_StopsShort(_)
TotalLen_StopsShort(texts) ==
    IF Len(texts) <= 1 THEN 0
    ELSE (IF Head(texts).isNull THEN 0 ELSE strlen(Head(texts)))
         + TotalLen_StopsShort(Tail(texts))

\* The first loop: total_len += strlen(text) for every non-null text.
RECURSIVE TotalLen(_)
TotalLen(texts) ==
    IF texts = <<>> THEN 0
    ELSE (IF Head(texts).isNull THEN 0 ELSE strlen(Head(texts))) + TotalLen(Tail(texts))

\* strcat(result_text, text): the bytes of text after those already there.
strcat(dest, text) == dest \o text.bytes

\* Mutant: the second loop runs from the last segment down to the first.
RECURSIVE Concatenate_Backwards(_, _)
Concatenate_Backwards(dest, texts) ==
    IF texts = <<>> THEN dest
    ELSE Concatenate_Backwards(
             IF texts[Len(texts)].isNull THEN dest ELSE dest \o texts[Len(texts)].bytes,
             SubSeq(texts, 1, Len(texts) - 1))

\* The second loop: result_text[0] = '\0', then strcat of every non-null text.
RECURSIVE Concatenate(_, _)
Concatenate(dest, texts) ==
    IF texts = <<>> THEN dest
    ELSE Concatenate(IF Head(texts).isNull THEN dest ELSE strcat(dest, Head(texts)),
                     Tail(texts))

\* The engine calls of one loop over n segments (the texts they return are
\* not kept in the trace).
SegmentCalls(c, n) ==
    [i \in 1..n |-> Call("whisper_full_get_segment_text", <<c, i - 1>>, ctx[c].status, 0)]

\* ---------------------------------------------------- whisper_kit_transcribe
\* Mutant: the count is checked with < instead of <=.
InvalidArguments_StrictCount(c, samples, n_samples) ==
    c = NULL \/ samples = NULL \/ n_samples < 0

\* Line 27: the argument check.
InvalidArguments(c, samples, n_samples) ==
    c = NULL \/ samples = NULL \/ n_samples <= 0

\* Mutant: only a positive status is taken as a failure.
DecodeFailed_PositiveOnly(result) == result > 0

\* Line 49: the check of whisper_full's status.
DecodeFailed(result) == result # 0

whisper_kit_transcribe(c, samples, n_samples) ==
    /\ Running
    /\ LET arg == <<c, samples, n_samples>> IN
       IF InvalidArguments(c, samples, n_samples)
       THEN /\ Return("transcribe", arg, NULL, <<>>)
            /\ UNCHANGED <<ctx, heap, crashed>>
       ELSE \E o \in whisper_full(c) :
            LET st == ctx[c].status
                full == Call("whisper_full", <<c, params, samples, n_samples>>, st, o.result)
                decoded == [ctx EXCEPT ![c].segs = o.segs]
            IN
            IF o.crash
            THEN /\ crashed' = TRUE
                 /\ Return("transcribe", arg, NULL, <<full>>)
                 /\ UNCHANGED <<ctx, heap>>
            ELSE IF DecodeFailed(o.result)
            THEN /\ ctx' = decoded
                 /\ Return("transcribe", arg, NULL,
                           <<full, Call("fprintf", <<o.result>>, "none", 0)>>)
                 /\ UNCHANGED <<heap, crashed>>
            ELSE \E rd \in SegmentReads(c, o.segs), buf \in malloc :
                 LET n_segments == Len(rd[1])
                     nseg == Call("whisper_full_n_segments", <<c>>, st, n_segments)
                     total_len == TotalLen(rd[1])
                     size == IF n_segments = 0 THEN 1 ELSE total_len + 1
                     alloc == Call("malloc", <<size>>, "none", buf)
                     text == Concatenate(<<>>, rd[2])
                     calls == IF n_segments = 0
                              THEN <<full, nseg, alloc>>
                              ELSE <<full, nseg>> \o SegmentCalls(c, n_segments) \o <<alloc>>
                                   \o (IF buf = NULL THEN <<>> ELSE SegmentCalls(c, n_segments))
                 IN  /\ ctx' = decoded
                     /\ IF buf = NULL
                        THEN /\ UNCHANGED <<heap, crashed>>
                        ELSE /\ heap' = [heap EXCEPT ![buf] =
                                    [status |-> "live", size |-> size, data |-> text]]
                             /\ IF Len(text) + 1 > size
                                THEN crashed' \in BOOLEAN  \* a write past the buffer
                                ELSE UNCHANGED crashed
                     /\ Return("transcribe", arg, buf, calls)
    /\ UNCHANGED GGML_USE_METAL

\* --------------------------------------------------------- whisper_kit_free
\* Mutant: the handle is passed to whisper_free without the null check.
whisper_kit_free_NoNullCheck(c) ==
    /\ Running
    /\ LET st == IF c = NULL THEN "none" ELSE ctx[c].status
           free == Call("whisper_free", <<c>>, st, 0)
       IN  IF st = "live"
           THEN /\ ctx' = [ctx EXCEPT ![c] = [status |-> "freed", segs |-> <<>>]]
                /\ UNCHANGED crashed
                /\ Return("free", <<c>>, 0, <<free>>)
           ELSE /\ crashed' \in (IF c = NULL THEN {crashed} ELSE BOOLEAN)
                /\ UNCHANGED ctx
                /\ Return("free", <<c>>, 0, <<free>>)
    /\ UNCHANGED <<heap, GGML_USE_METAL>>

\* Mutant: the binding remembers which handles it has freed and skips them.
whisper_kit_free_Tracked(c) ==
    /\ Running
    /\ IF c # NULL /\ ctx[c].status = "live"
       THEN /\ ctx' = [ctx EXCEPT ![c] = [status |-> "freed", segs |-> <<>>]]
            /\ Return("free", <<c>>, 0, <<Call("whisper_free", <<c>>, "live", 0)>>)
       ELSE /\ Return("free", <<c>>, 0, <<>>)
            /\ UNCHANGED ctx
    /\ UNCHANGED <<heap, crashed, GGML_USE_METAL>>

whisper_kit_free(c) ==
    /\ Running
    /\ IF c # NULL
       THEN LET st == ctx[c].status
                free == Call("whisper_free", <<c>>, st, 0)
            IN  IF st = "live"
                THEN /\ ctx' = [ctx EXCEPT ![c] = [status |-> "freed", segs |-> <<>>]]
                     /\ UNCHANGED crashed
                     /\ Return("free", <<c>>, 0, <<free>>)
                ELSE \* whisper_free on a freed context: a double free
                     /\ crashed' \in BOOLEAN
                     /\ UNCHANGED ctx
                     /\ Return("free", <<c>>, 0, <<free>>)
       ELSE /\ Return("free", <<c>>, 0, <<>>)
            /\ UNCHANGED <<ctx, crashed>>
    /\ UNCHANGED <<heap, GGML_USE_METAL>>

\* -------------------------------------------------- whisper_kit_free_string
whisper_kit_free_string(str) ==
    /\ Running
    /\ IF str # NULL
       THEN LET st == heap[str].status
                free == Call("free", <<str>>, st, 0)
            IN  IF st = "live"
                THEN /\ heap' = [heap EXCEPT ![str] = [status |-> "freed", size |-> 0, data |-> <<>>]]
                     /\ UNCHANGED crashed
                     /\ Return("free_string", <<str>>, 0, <<free>>)
                ELSE \* free of a freed buffer: a double free
                     /\ crashed' \in BOOLEAN
                     /\ UNCHANGED heap
                     /\ Return("free_string", <<str>>, 0, <<free>>)
       ELSE /\ Return("free_string", <<str>>, 0, <<>>)
            /\ UNCHANGED <<heap, crashed>>
    /\ UNCHANGED <<ctx, GGML_USE_METAL>>

\* ------------------------------------------------------------- capabilities
\* Mutant: a runtime probe (is a context loaded?) instead of the build flag.
whisper_kit_metal_available_Probe ==
    /\ Running
    /\ last' = [NoCall EXCEPT !.op = "metal_available",
                              !.flag = (\E h \in Handles : ctx[h].status = "live")]
    /\ ncalls' = ncalls + 1
    /\ UNCHANGED <<ctx, heap, crashed, GGML_USE_METAL>>

whisper_kit_metal_available ==
    /\ Running
    /\ last' = [NoCall EXCEPT !.op = "metal_available", !.flag = GGML_USE_METAL]
    /\ ncalls' = ncalls + 1
    /\ UNCHANGED <<ctx, heap, crashed, GGML_USE_METAL>>

VersionLiteral == "1.0.0"

whisper_kit_version ==
    /\ Running
    /\ last' = [NoCall EXCEPT !.op = "version", !.str = VersionLiteral]
    /\ ncalls' = ncalls + 1
    /\ UNCHANGED <<ctx, heap, crashed, GGML_USE_METAL>>

\* ------------------------------------------------------------ one caller
Next ==
    \/ \E p \in Paths : whisper_kit_init(p) /\ UNCHANGED <<pc, loc>>
    \/ \E c \in {NULL} \cup IssuedHandles : whisper_kit_free(c) /\ UNCHANGED <<pc, loc>>
    \/ \E c \in {NULL} \cup IssuedHandles, samples \in SamplePtrs, n \in SampleCounts :
          whisper_kit_transcribe(c, samples, n) /\ UNCHANGED <<pc, loc>>
    \/ \E str \in {NULL} \cup IssuedBufs : whisper_kit_free_string(str) /\ UNCHANGED <<pc, loc>>
    \/ whisper_kit_metal_available /\ UNCHANGED <<pc, loc>>
    \/ whisper_kit_version /\ UNCHANGED <<pc, loc>>

Spec == Init /\ [][Next]_vars

\* ----------------------------------------------------------- two callers
\* whisper_kit_transcribe step by step.  A thread is at
\*   "idle"   outside the function,
\*   "full"   past the argument check, about to call whisper_full,
\*   "nseg"   about to call whisper_full_n_segments,
\*   "sum"    in the first loop, about to read segment i,
\*   "malloc" about to allocate result_text,
\*   "copy"   in the second loop, about to read segment i.
\* Between its decode and its last segment read a thread is at one of:
Mid == {"nseg", "sum", "malloc", "copy"}

\* whisper_full_n_segments: the length of the context's list; of a freed
\* context, whatever the freed memory holds.
whisper_full_n_segments(c) ==
    IF ctx[c].status = "live" THEN {Len(ctx[c].segs)} ELSE 0..MaxSegs

\* whisper_full_get_segment_text(c, i): segment i of the context's list.
\* A freed context, or an index the list does not have, is undefined: the
\* read faults or yields any text.
whisper_full_get_segment_text(c, i) ==
    IF ctx[c].status = "live" /\ i < Len(ctx[c].segs)
    THEN {[crash |-> FALSE, text |-> ctx[c].segs[i + 1]]}
    ELSE {[crash |-> TRUE, text |-> NullText]}
         \cup {[crash |-> FALSE, text |-> x] : x \in SegTexts}

\* Mutant: a per-handle lock, held for the whole of whisper_kit_transcribe.
MayEnter_Locked(t, c) ==
    /\ pc[t] = "idle"
    /\ c # NULL => \A u \in Threads \ {t} : pc[u] = "idle" \/ loc[u].ctx # c

\* What a thread needs to enter an exported function on context c: to be
\* outside whisper_kit_transcribe itself.  No function takes a lock or looks
\* at what other threads are doing with c.
MayEnter(t, c) == pc[t] = "idle"

\* The function returns ret on thread t: its locals are gone, and the caller
\* on that thread holds ret.
ReturnMT(t, ret, locals) ==
    /\ pc' = [pc EXCEPT ![t] = "idle"]
    /\ loc' = [locals EXCEPT ![t] = [NoLoc EXCEPT !.ret = ret, !.returned = TRUE]]

\* The process faults on thread t.
FaultMT(t) ==
    /\ crashed' = TRUE
    /\ UNCHANGED <<pc, loc>>

\* Lines 26-29: entry and the argument check.
T_Enter(t, c, samples, n_samples) ==
    /\ Running
    /\ MayEnter(t, c)
    /\ ncalls' = ncalls + 1
    /\ LET locals == [loc EXCEPT ![t] = [NoLoc EXCEPT !.ctx = c, !.samples = samples,
                                                    !.n_samples = n_samples]]
       IN  IF InvalidArguments(c, samples, n_samples)
           THEN ReturnMT(t, NULL, locals)
           ELSE /\ pc' = [pc EXCEPT ![t] = "full"]
                /\ loc' = locals
    /\ UNCHANGED <<ctx, heap, crashed, GGML_USE_METAL, last>>

\* Lines 31-52: whisper_full and the check of its status.
T_Full(t) ==
    /\ ~crashed
    /\ pc[t] = "full"
    /\ \E o \in {x \in whisper_full(loc[t].ctx) : Len(x.segs) <= MaxSegsMT} :
         LET c == loc[t].ctx
             \* every other thread between its decode and its last read of c
             \* sees the list this decode leaves
             seen == [u \in Threads |->
                        IF u # t /\ pc[u] \in Mid /\ loc[u].ctx = c /\ o.segs # ctx[c].segs
                        THEN [loc[u] EXCEPT !.replaced = TRUE] ELSE loc[u]]
         IN  IF o.crash
             THEN /\ FaultMT(t)
                  /\ UNCHANGED ctx
             ELSE /\ ctx' = [ctx EXCEPT ![c].segs = o.segs]
                  /\ UNCHANGED crashed
                  /\ IF DecodeFailed(o.result)
                     THEN ReturnMT(t, NULL, seen)
                     ELSE /\ pc' = [pc EXCEPT ![t] = "nseg"]
                          /\ loc' = [seen EXCEPT ![t].liveAtDecode = (ctx[c].status = "live")]
    /\ UNCHANGED <<heap, GGML_USE_METAL, last, ncalls>>

\* Lines 55-61: whisper_full_n_segments and the empty result.
T_NSegments(t) ==
    /\ ~crashed
    /\ pc[t] = "nseg"
    /\ \E n \in {x \in whisper_full_n_segments(loc[t].ctx) : x <= MaxSegsMT} :
         IF n = 0
         THEN \E empty \in malloc :
                /\ IF empty # NULL
                   THEN heap' = [heap EXCEPT ![empty] =
                            [status |-> "live", size |-> 1, data |-> <<>>]]
                   ELSE UNCHANGED heap
                /\ ReturnMT(t, empty, [loc EXCEPT ![t].result_text = empty])
         ELSE /\ pc' = [pc EXCEPT ![t] = "sum"]
              /\ loc' = [loc EXCEPT ![t].n_segments = n, ![t].i = 0, ![t].total_len = 0]
              /\ UNCHANGED heap
    /\ UNCHANGED <<ctx, crashed, GGML_USE_METAL, last, ncalls>>

\* Lines 64-70: one iteration of the first loop.
T_Sum(t) ==
    /\ ~crashed
    /\ pc[t] = "sum"
    /\ \E r \in whisper_full_get_segment_text(loc[t].ctx, loc[t].i) :
         IF r.crash
         THEN FaultMT(t)
         ELSE /\ loc' = [loc EXCEPT
                         ![t].total_len = @ + (IF r.text.isNull THEN 0 ELSE strlen(r.text)),
                         ![t].i = @ + 1]
              /\ pc' = [pc EXCEPT ![t] =
                          IF loc[t].i + 1 < loc[t].n_segments THEN "sum" ELSE "malloc"]
              /\ UNCHANGED crashed
    /\ UNCHANGED <<ctx, heap, GGML_USE_METAL, last, ncalls>>

\* Lines 73-79: the allocation of result_text and its first terminator.
T_Malloc(t) ==
    /\ ~crashed
    /\ pc[t] = "malloc"
    /\ \E result_text \in malloc :
         IF result_text = NULL
         THEN /\ ReturnMT(t, NULL, loc)
              /\ UNCHANGED heap
         ELSE /\ heap' = [heap EXCEPT ![result_text] =
                            [status |-> "live", size |-> loc[t].total_len + 1, data |-> <<>>]]
              /\ loc' = [loc EXCEPT ![t].result_text = result_text, ![t].i = 0]
              /\ pc' = [pc EXCEPT ![t] = "copy"]
    /\ UNCHANGED <<ctx, crashed, GGML_USE_METAL, last, ncalls>>

\* Lines 80-87: one iteration of the second loop, and the return after the last.
T_Copy(t) ==
    /\ ~crashed
    /\ pc[t] = "copy"
    /\ \E r \in whisper_full_get_segment_text(loc[t].ctx, loc[t].i) :
         LET buf == loc[t].result_text
             text == IF r.text.isNull THEN heap[buf].data ELSE strcat(heap[buf].data, r.text)
             locals == [loc EXCEPT ![t].i = @ + 1]
         IN  IF r.crash
             THEN /\ FaultMT(t)
                  /\ UNCHANGED heap
             ELSE /\ heap' = [heap EXCEPT ![buf].data = text]
                  /\ IF Len(text) + 1 > heap[buf].size
                     THEN crashed' \in BOOLEAN  \* a write past the buffer
                     ELSE UNCHANGED crashed
                  /\ IF loc[t].i + 1 < loc[t].n_segments
                     THEN /\ pc' = [pc EXCEPT ![t] = "copy"]
                          /\ loc' = locals
                     ELSE ReturnMT(t, buf, locals)
    /\ UNCHANGED <<ctx, GGML_USE_METAL, last, ncalls>>

\* whisper_kit_free on thread t, while other threads may be inside
\* whisper_kit_transcribe.
FreeMT(t, c) ==
    /\ MayEnter(t, c)
    /\ whisper_kit_free(c)
    /\ loc' = [u \in Threads |->
                 IF c # NULL /\ pc[u] \in Mid /\ loc[u].ctx = c
                 THEN [loc[u] EXCEPT !.freedUnder = TRUE] ELSE loc[u]]
    /\ UNCHANGED pc

\* whisper_kit_init on thread t.
InitMT(t, model_path) ==
    /\ MayEnter(t, NULL)
    /\ whisper_kit_init(model_path)
    /\ UNCHANGED <<pc, loc>>

\* The calls that touch a handle, from either thread (whisper_kit_free_string
\* and the two capability queries touch none and are left to Spec).
NextMT ==
    \/ \E t \in Threads, p \in Paths : InitMT(t, p)
    \/ \E t \in Threads, c \in {NULL} \cup IssuedHandles : FreeMT(t, c)
    \/ \E t \in Threads, c \in {NULL} \cup IssuedHandles,
          samples \in SamplePtrs, n \in SampleCounts : T_Enter(t, c, samples, n)
    \/ \E t \in Threads : T_Full(t)
    \/ \E t \in Threads : T_NSegments(t)
    \/ \E t \in Threads : T_Sum(t)
    \/ \E t \in Threads : T_Malloc(t)
    \/ \E t \in Threads : T_Copy(t)

SpecMT == Init /\ [][NextMT]_vars

\* ================================================================== claims
\* The calls to fn in a call's trace, in order.
CallsTo(calls, fn) == SelectSeq(calls, LAMBDA x : x.fn = fn)

\* This step is an exported call returning (or faulting).
Called(op) == ncalls' = ncalls + 1 /\ last'.op = op

\* C1: a whisper_kit_transcribe call whose handle is null, whose buffer is
\* null or whose count is <= 0 returns NULL at once with no side effect: it
\* calls neither whisper_full nor a segment query nor malloc, and leaves
\* every context, every buffer and the fault state as they were.
C1_InvalidArgumentsNoEffect ==
    [][(Called("transcribe")
        /\ (last'.arg[1] = 0 \/ last'.arg[2] = 0 \/ last'.arg[3] <= 0))
       => /\ last'.ret = 0
          /\ last'.calls = <<>>
          /\ ctx' = ctx /\ heap' = heap /\ crashed' = crashed]_vars

\* transcribe(handle, samples, 0) on a live handle has returned.
C1_Witness ==
    /\ last.op = "transcribe"
    /\ last.arg[1] # 0 /\ ctx[last.arg[1]].status = "live"
    /\ last.arg[2] # 0 /\ last.arg[3] = 0

\* C2: whisper_kit_transcribe returns NULL exactly when the call failed: an
\* invalid argument, a non-zero status from whisper_full, or a failed
\* allocation.  With status 0 and zero segments the result is a non-null
\* buffer of one byte holding only the terminator.
C2_NullIffFailed ==
    (last.op = "transcribe" /\ ~crashed) =>
        LET invalid == last.arg[1] = 0 \/ last.arg[2] = 0 \/ last.arg[3] <= 0
            full == CallsTo(last.calls, "whisper_full")
            nseg == CallsTo(last.calls, "whisper_full_n_segments")
            allocs == CallsTo(last.calls, "malloc")
            decodeFailed == full # <<>> /\ full[1].ret # 0
            allocFailed == allocs # <<>> /\ allocs[1].ret = 0
        IN  /\ (last.ret = 0) <=> (invalid \/ decodeFailed \/ allocFailed)
            /\ (~invalid /\ ~decodeFailed /\ ~allocFailed /\ nseg[1].ret = 0)
                 => /\ last.ret # 0
                    /\ heap[last.ret] = [status |-> "live", size |-> 1, data |-> <<>>]

\* A decode with status 0 and zero segments has returned its empty string.
C2_Witness ==
    /\ last.op = "transcribe" /\ last.ret # 0
    /\ CallsTo(last.calls, "whisper_full")[1].ret = 0
    /\ CallsTo(last.calls, "whisper_full_n_segments")[1].ret = 0
    /\ heap[last.ret].data = <<>>

\* The texts of a segment list joined in index order, nothing between them.
RECURSIVE C3_Joined(_)
C3_Joined(segs) ==
    IF segs = <<>> THEN <<>>
    ELSE (IF segs[1].isNull THEN <<>> ELSE segs[1].bytes) \o C3_Joined(Tail(segs))

\* The sum of the byte lengths of a segment list's texts.
C3_Bytes(segs) ==
    LET RECURSIVE upTo(_)
        upTo(k) == IF k = 0 THEN 0
                   ELSE upTo(k - 1) + (IF segs[k].isNull THEN 0 ELSE Len(segs[k].bytes))
    IN  upTo(Len(segs))

\* C3: when whisper_full returns 0 with n >= 1 segments and the allocation
\* succeeds, the result is the segment texts 0..n-1 joined in index order
\* with nothing between them, in the one buffer the call allocated, whose
\* size is the sum of the texts' byte lengths plus one.
C3_ConcatenationInOrder ==
    (/\ last.op = "transcribe" /\ last.ret # 0
     /\ CallsTo(last.calls, "whisper_full")[1].st = "live"
     /\ CallsTo(last.calls, "whisper_full_n_segments")[1].ret >= 1) =>
        LET segs == ctx[last.arg[1]].segs
            allocs == CallsTo(last.calls, "malloc")
        IN  /\ Len(segs) = CallsTo(last.calls, "whisper_full_n_segments")[1].ret
            /\ heap[last.ret].status = "live"
            /\ heap[last.ret].data = C3_Joined(segs)
            /\ heap[last.ret].size = C3_Bytes(segs) + 1
            /\ Len(allocs) = 1
            /\ allocs[1].arg = <<C3_Bytes(segs) + 1>>
            /\ allocs[1].ret = last.ret

\* Two segments with different texts have been joined.
C3_Witness ==
    /\ last.op = "transcribe" /\ last.ret # 0
    /\ ctx[last.arg[1]].status = "live"
    /\ ctx[last.arg[1]].segs = <<Text(<<2, 3>>), Text(<<1>>)>>
    /\ heap[last.ret].data = <<2, 3, 1>>

\* C4: whisper_kit_init calls the engine's load routine exactly once and
\* returns what it returned: a non-null handle, which is that (now live)
\* context, exactly when the load gave one; NULL when the load failed, with
\* no context made live and no buffer allocated.
C4_InitReturnsLoadResult ==
    [][Called("init") =>
        LET loads == CallsTo(last'.calls, "whisper_init_from_file_with_params")
        IN  /\ Len(loads) = 1
            /\ last'.ret = loads[1].ret
            /\ heap' = heap /\ crashed' = crashed
            /\ IF last'.ret = 0
               THEN ctx' = ctx
               ELSE /\ ctx[last'.ret].status # "live"
                    /\ ctx'[last'.ret].status = "live"
                    /\ \A h \in Handles \ {last'.ret} : ctx'[h] = ctx[h]]_vars

\* A load has failed while another context was live.
C4_Witness ==
    /\ last.op = "init" /\ last.ret = 0
    /\ \E h \in Handles : ctx[h].status = "live"

\* C5: whisper_kit_free(NULL) and whisper_kit_free_string(NULL) do nothing in
\* any state: they call neither whisper_free nor free, do not fault, and
\* leave every context and every buffer as it was.
C5_FreeOfNullIsNoOp ==
    [][((Called("free") \/ Called("free_string")) /\ last'.arg = <<0>>)
       => /\ last'.calls = <<>>
          /\ ctx' = ctx /\ heap' = heap /\ crashed' = crashed]_vars

\* free_string(NULL) has returned while a context and a buffer were live.
C5_Witness ==
    /\ last.op = "free_string" /\ last.arg = <<0>>
    /\ \E h \in Handles : ctx[h].status = "live"
    /\ \E b \in Bufs : heap[b].status = "live"

\* free(NULL) has returned while a context was live.
C5_WitnessFree ==
    /\ last.op = "free" /\ last.arg = <<0>>
    /\ \E h \in Handles : ctx[h].status = "live"

LiveHandles == {h \in Handles : ctx[h].status = "live"}

\* C6 as stated: at most one handle created by whisper_kit_init is live in
\* any reachable state, and no handle is destroyed more than once.
C6_AtMostOneLiveHandle ==
    /\ Cardinality(LiveHandles) <= 1
    /\ last.op = "free" =>
         \A i \in 1..Len(last.calls) :
             last.calls[i].fn = "whisper_free" => last.calls[i].st = "live"

\* C6, amended: the binding holds no handle and sets no limit on how many
\* are live.  A context becomes live only by a whisper_kit_init call that
\* returns it, which leaves every other context as it was; a live context
\* stops being live only by a whisper_kit_free call on that handle, which
\* destroys it with one whisper_free call.
C6_HandlesLiveFromInitToFree ==
    [][\A h \in Handles :
        /\ (ctx[h].status # "live" /\ ctx'[h].status = "live")
             => /\ Called("init") /\ last'.ret = h
                /\ \A g \in Handles \ {h} : ctx'[g] = ctx[g]
        /\ (ctx[h].status = "live" /\ ctx'[h].status # "live")
             => /\ Called("free") /\ last'.arg = <<h>>
                /\ ctx'[h].status = "freed"
                /\ Len(CallsTo(last'.calls, "whisper_free")) = 1
                /\ \A g \in Handles \ {h} : ctx'[g] = ctx[g]]_vars

\* A second whisper_kit_init has returned a handle while the first is live.
C6_Witness ==
    /\ last.op = "init" /\ last.ret # 0
    /\ Cardinality(LiveHandles) >= 2

\* C7: whisper_kit_version and whisper_kit_metal_available are pure: in any
\* state version returns "1.0.0" and metal_available returns the build
\* flag, which never changes, and neither calls the engine or the allocator
\* or changes a context, a buffer or the fault state.
C7_CapabilitiesArePure ==
    [][/\ GGML_USE_METAL' = GGML_USE_METAL
       /\ Called("version") => last'.str = "1.0.0"
       /\ Called("metal_available") => last'.flag = GGML_USE_METAL
       /\ (Called("version") \/ Called("metal_available"))
            => /\ last'.calls = <<>>
               /\ ctx' = ctx /\ heap' = heap /\ crashed' = crashed]_vars

\* metal_available has returned the build flag after a context was loaded
\* in a build without Metal.
C7_Witness ==
    /\ last.op = "metal_available" /\ last.flag = FALSE
    /\ LiveHandles # {}

\* version has returned after a context was loaded and used.
C7_WitnessVersion ==
    /\ last.op = "version" /\ last.str = "1.0.0"
    /\ \E b \in Bufs : heap[b].status = "live"

\* C8: the binding keeps no record of freed handles.  whisper_kit_free of a
\* non-null handle always calls whisper_free on it, and
\* whisper_kit_transcribe with valid arguments always calls whisper_full on
\* its handle, whether or not the handle has been freed.
C8_FreedHandlesReachTheEngine ==
    /\ (last.op = "free" /\ last.arg[1] # 0)
         => /\ Len(last.calls) = 1
            /\ last.calls[1].fn = "whisper_free"
            /\ last.calls[1].arg = <<last.arg[1]>>
    /\ (last.op = "transcribe" /\ last.arg[1] # 0 /\ last.arg[2] # 0 /\ last.arg[3] > 0)
         => /\ last.calls # <<>>
            /\ last.calls[1].fn = "whisper_full"
            /\ last.calls[1].arg[1] = last.arg[1]

\* Use after free: whisper_full has been called on a freed context.
C8_Witness ==
    /\ last.op = "transcribe" /\ last.calls # <<>>
    /\ last.calls[1].fn = "whisper_full" /\ last.calls[1].st = "freed"

\* Double free: whisper_free has been called on a freed context.
C8_WitnessDoubleFree ==
    /\ last.op = "free" /\ last.calls # <<>>
    /\ last.calls[1].fn = "whisper_free" /\ last.calls[1].st = "freed"

\* C9: no call is serialized against another thread's.  While a thread is
\* between its decode and its last segment read on a handle, any other
\* thread outside the function can enter whisper_kit_transcribe or
\* whisper_kit_free on that handle, and a thread already past the argument
\* check can run its whisper_full on it.
C9_CallsAreNotSerialized ==
    \A t \in Threads : pc[t] \in Mid =>
        \A u \in Threads \ {t} :
            /\ (pc[u] = "idle" /\ Running)
                 => /\ ENABLED T_Enter(u, loc[t].ctx, NULL + 1, 1)
                    /\ ENABLED FreeMT(u, loc[t].ctx)
            /\ (pc[u] = "full" /\ loc[u].ctx = loc[t].ctx /\ ~crashed)
                 => ENABLED T_Full(u)

\* Race (1): another thread's decode has replaced the segment list of a
\* live handle between a thread's decode and its last segment read.
C9_Witness ==
    \E t \in Threads :
        /\ pc[t] \in Mid /\ loc[t].liveAtDecode /\ loc[t].replaced
        /\ ctx[loc[t].ctx].status = "live"

\* Race (2): whisper_kit_free has freed the handle between a thread's decode
\* and its last segment read.
C9_WitnessFree ==
    \E t \in Threads :
        /\ pc[t] \in Mid /\ loc[t].liveAtDecode /\ loc[t].freedUnder
        /\ ctx[loc[t].ctx].status = "freed"

\* C10: with one caller, a whisper_kit_transcribe call on a live handle that
\* allocates for n >= 1 segments writes exactly as many bytes, terminator
\* included, as it allocated (total_len + 1) and so never past the buffer:
\* both loops read every segment once and see the same texts, a null text
\* adding nothing in either.
C10_CopyFillsTheAllocation ==
    (/\ last.op = "transcribe" /\ last.ret # 0
     /\ CallsTo(last.calls, "whisper_full")[1].st = "live"
     /\ CallsTo(last.calls, "whisper_full_n_segments")[1].ret >= 1) =>
        LET n == CallsTo(last.calls, "whisper_full_n_segments")[1].ret
            allocated == CallsTo(last.calls, "malloc")[1].arg[1]
            written == Len(heap[last.ret].data) + 1
        IN  /\ written = allocated
            /\ heap[last.ret].size = allocated
            /\ Len(CallsTo(last.calls, "whisper_full_get_segment_text")) = 2 * n
            /\ ~crashed

\* A list holding a null text and a two-byte text has been copied.
C10_Witness ==
    /\ last.op = "transcribe" /\ last.ret # 0
    /\ CallsTo(last.calls, "whisper_full")[1].st = "live"
    /\ ctx[last.arg[1]].segs = <<NullText, Text(<<2, 3>>)>>
    /\ heap[last.ret].size = 3

\* C10 with two callers and no context ever freed: a buffer written past
\* its size is reachable, by a decode on the same handle between one call's
\* two loops.
C10_WitnessRaceOverflow ==
    /\ \A h \in Handles : ctx[h].status # "freed"
    /\ \E h \in Handles, b \in Bufs :
         /\ ctx[h].status = "live" /\ ctx[h].segs = <<Text(<<2, 3>>)>>
         /\ heap[b].status = "live" /\ heap[b].size = 2 /\ heap[b].data = <<2, 3>>

\* C10 with two callers: a call whose handle was live at its decode and
\* untouched by other threads since never writes past its buffer.
C10_UndisturbedCallFits ==
    [][\A t \in Threads :
        (/\ pc[t] = "copy" /\ loc[t].liveAtDecode
         /\ ~loc[t].replaced /\ ~loc[t].freedUnder
         /\ (pc'[t] = "copy" => ~loc'[t].replaced /\ ~loc'[t].freedUnder))
        => /\ Len(heap'[loc[t].result_text].data) + 1 <= heap'[loc[t].result_text].size
           /\ pc'[t] = "idle"
                => Len(heap'[loc[t].result_text].data) + 1 = heap'[loc[t].result_text].size]_vars
====
